---- MODULE Spec2Model ----
(***************************************************************************)
(* The shelter data cleaning pipeline (src/src/cleaner.py) as a state      *)
(* machine over pandas-like tables, with its loader (data_loader.py), the  *)
(* account and audit store (auth_db.py) and the session of the app.        *)
(*                                                                         *)
(* A text is a sequence of one-character strings, so that strip, upper,    *)
(* lower, whitespace collapsing and date parsing are computed character by *)
(* character.  Render turns a text into a TLA+ string for comparison with  *)
(* the literals of the source.                                             *)
(***************************************************************************)
EXTENDS Integers, Sequences, FiniteSets, TLC

VARIABLES
    frames,     \* the heap of DataFrame objects: frame id -> table
    rawRef,     \* the caller's reference to the raw table
    selfdf,     \* ShelterDataCleaner.df: the id of the frame the cleaner works on
    pc,         \* position of the running call
    calls,      \* number of stage calls made by the caller (direct-call runs)
    env,        \* what the loader's path resolves to in the file system
    db,         \* the SQLite files: file name -> its users and logs tables
    session     \* st.session_state of the browser session

vars == <<frames, rawRef, selfdf, pc, calls, env, db, session>>

----------------------------------------------------------------------------
(* Bounds *)

MaxRows == 2
MaxCalls == 3

\* the most rows the logs table gets in a run of the app
MaxLogs == 5

----------------------------------------------------------------------------
(* Text: str.strip, str.lower, str.upper, str.replace *)

LowerChars == <<"a", "b", "c", "d", "e", "f", "g", "h", "i", "j", "k", "l", "m",
                "n", "o", "p", "q", "r", "s", "t", "u", "v", "w", "x", "y", "z">>

UpperChars == <<"A", "B", "C", "D", "E", "F", "G", "H", "I", "J", "K", "L", "M",
                "N", "O", "P", "Q", "R", "S", "T", "U", "V", "W", "X", "Y", "Z">>

DigitChars == <<"0", "1", "2", "3", "4", "5", "6", "7", "8", "9">>

IsSpace(c) == c \in {" ", "\t"}

ToUpper(c) ==
    IF \E i \in DOMAIN LowerChars : LowerChars[i] = c
    THEN UpperChars[CHOOSE i \in DOMAIN LowerChars : LowerChars[i] = c]
    ELSE c

ToLower(c) ==
    IF \E i \in DOMAIN UpperChars : UpperChars[i] = c
    THEN LowerChars[CHOOSE i \in DOMAIN UpperChars : UpperChars[i] = c]
    ELSE c

RECURSIVE RenderFrom(_, _)
RenderFrom(s, i) == IF i > Len(s) THEN "" ELSE s[i] \o RenderFrom(s, i + 1)

\* the text as one string
Render(s) == RenderFrom(s, 1)

StrUpper(s) == [i \in 1..Len(s) |-> ToUpper(s[i])]

StrLower(s) == [i \in 1..Len(s) |-> ToLower(s[i])]

RECURSIVE LStrip(_)
LStrip(s) == IF Len(s) > 0 /\ IsSpace(Head(s)) THEN LStrip(Tail(s)) ELSE s

RECURSIVE RStrip(_)
RStrip(s) ==
    IF Len(s) > 0 /\ IsSpace(s[Len(s)]) THEN RStrip(SubSeq(s, 1, Len(s) - 1)) ELSE s

StrStrip(s) == RStrip(LStrip(s))

\* str.replace(r"\s+", " ", regex=True): every run of whitespace becomes one space
RECURSIVE CollapseSpaces(_)
CollapseSpaces(s) ==
    IF Len(s) = 0 THEN <<>>
    ELSE IF IsSpace(Head(s)) THEN <<" ">> \o CollapseSpaces(LStrip(Tail(s)))
    ELSE <<Head(s)>> \o CollapseSpaces(Tail(s))

\* str.replace(a, b) for a one-character pattern
ReplaceChar(s, a, b) == [i \in 1..Len(s) |-> IF s[i] = a THEN b ELSE s[i]]

----------------------------------------------------------------------------
(* Cell values.  Every value has the same four fields; t is the kind.      *)
(* "null" stands for NaN, NaT and pd.NA alike.  A "date" holds the day     *)
(* number since 1970-01-01; a "years" value holds the whole days d of the  *)
(* float d / 365.25.                                                       *)

Null == [t |-> "null", s |-> <<>>, n |-> 0, b |-> FALSE]

Str(cs) == [t |-> "str", s |-> cs, n |-> 0, b |-> FALSE]

IntV(k) == [t |-> "int", s |-> <<>>, n |-> k, b |-> FALSE]

Bool(x) == [t |-> "bool", s |-> <<>>, n |-> 0, b |-> x]

Date(d) == [t |-> "date", s |-> <<>>, n |-> d, b |-> FALSE]

Years(d) == [t |-> "years", s |-> <<>>, n |-> d, b |-> FALSE]

IsNull(v) == v.t = "null"

\* the text of a value as a TLA+ string ("" for a value that is no text)
Text(v) == IF v.t = "str" THEN Render(v.s) ELSE ""

IsText(v, lit) == v.t = "str" /\ Render(v.s) = lit

----------------------------------------------------------------------------
(* pd.to_datetime(..., errors="coerce") on ISO texts "YYYY-MM-DD" *)

IsDigit(c) == \E i \in DOMAIN DigitChars : DigitChars[i] = c

DigitVal(c) == (CHOOSE i \in DOMAIN DigitChars : DigitChars[i] = c) - 1

RECURSIVE DecVal(_)
DecVal(s) ==
    IF Len(s) = 0 THEN 0
    ELSE 10 * DecVal(SubSeq(s, 1, Len(s) - 1)) + DigitVal(s[Len(s)])

IsLeap(y) == (y % 4 = 0 /\ y % 100 # 0) \/ y % 400 = 0

DaysInMonth(y, m) ==
    IF m = 2 THEN (IF IsLeap(y) THEN 29 ELSE 28)
    ELSE IF m \in {4, 6, 9, 11} THEN 30 ELSE 31

\* the day number of a civil date, 1970-01-01 being day 0
DaysFromCivil(y, m, d) ==
    LET yy  == IF m <= 2 THEN y - 1 ELSE y
        era == yy \div 400
        yoe == yy - era * 400
        mp  == IF m > 2 THEN m - 3 ELSE m + 9
        doy == (153 * mp + 2) \div 5 + d - 1
        doe == yoe * 365 + yoe \div 4 - yoe \div 100 + doy
    IN  era * 146097 + doe - 719468

IsIsoDate(s) ==
    /\ Len(s) = 10
    /\ s[5] = "-" /\ s[8] = "-"
    /\ \A i \in {1, 2, 3, 4, 6, 7, 9, 10} : IsDigit(s[i])
    /\ DecVal(SubSeq(s, 6, 7)) \in 1..12
    /\ DecVal(SubSeq(s, 9, 10)) \in 1..DaysInMonth(DecVal(SubSeq(s, 1, 4)), DecVal(SubSeq(s, 6, 7)))

\* one element of pd.to_datetime(series, errors="coerce"): a text that is no
\* valid date, and a missing value, become NaT
ToDatetime(v) ==
    IF v.t = "date" THEN v
    ELSE IF v.t = "str" /\ IsIsoDate(v.s)
    THEN Date(DaysFromCivil(DecVal(SubSeq(v.s, 1, 4)), DecVal(SubSeq(v.s, 6, 7)),
                            DecVal(SubSeq(v.s, 9, 10))))
    ELSE Null

----------------------------------------------------------------------------
(* Tables: column labels, column dtypes and the rows, aligned by position.  *)
(* columns holds the labels as texts; names holds the same labels as       *)
(* strings, the key a label lookup (df[name], name in df.columns) uses.    *)

NRows(df) == Len(df.data)

HasCol(df, name) == \E i \in 1..Len(df.names) : df.names[i] = name

ColIdx(df, name) == CHOOSE i \in 1..Len(df.names) : df.names[i] = name

\* df[name] as the sequence of its cells
Column(df, name) ==
    LET i == ColIdx(df, name) IN [r \in 1..NRows(df) |-> df.data[r][i]]

Cell(df, r, name) == df.data[r][ColIdx(df, name)]

Dtype(df, name) == df.dtypes[ColIdx(df, name)]

\* df[label] = vals: replaces the column when the label exists, appends it otherwise
Assign(df, label, dtype, vals) ==
    IF HasCol(df, Render(label))
    THEN LET i == ColIdx(df, Render(label))
         IN  [columns |-> df.columns,
              names   |-> df.names,
              dtypes  |-> [df.dtypes EXCEPT ![i] = dtype],
              data    |-> [r \in 1..NRows(df) |-> [df.data[r] EXCEPT ![i] = vals[r]]]]
    ELSE [columns |-> Append(df.columns, label),
          names   |-> Append(df.names, Render(label)),
          dtypes  |-> Append(df.dtypes, dtype),
          data    |-> [r \in 1..NRows(df) |-> Append(df.data[r], vals[r])]]

\* df[name] = vals, for a column the table has
SetCol(df, name, dtype, vals) ==
    LET i == ColIdx(df, name)
    IN  [columns |-> df.columns,
         names   |-> df.names,
         dtypes  |-> [df.dtypes EXCEPT ![i] = dtype],
         data    |-> [r \in 1..NRows(df) |-> [df.data[r] EXCEPT ![i] = vals[r]]]]

\* df.copy(): a new table with the same labels, dtypes and cells
Copy(df) ==
    [columns |-> df.columns, names |-> df.names, dtypes |-> df.dtypes, data |-> df.data]

\* df.columns = labels
SetColumns(df, labels) ==
    [columns |-> labels,
     names   |-> [i \in 1..Len(labels) |-> Render(labels[i])],
     dtypes  |-> df.dtypes,
     data    |-> df.data]

----------------------------------------------------------------------------
(* Labels and literals the cleaner writes *)

N_age_at_intake_years == <<"a", "g", "e", "_", "a", "t", "_", "i", "n", "t", "a", "k", "e", "_", "y", "e", "a", "r", "s">>

N_age_group == <<"a", "g", "e", "_", "g", "r", "o", "u", "p">>

\* a label for the base sex that is the label of another stage's column
N_sex_base_clash == <<"a", "g", "e", "_", "g", "r", "o", "u", "p">>

N_sex_base == <<"s", "e", "x", "_", "b", "a", "s", "e">>

N_is_sterilized == <<"i", "s", "_", "s", "t", "e", "r", "i", "l", "i", "z", "e", "d">>

N_outcome_group == <<"o", "u", "t", "c", "o", "m", "e", "_", "g", "r", "o", "u", "p">>

L_Unknown == <<"U", "n", "k", "n", "o", "w", "n">>

L_Male == <<"M", "a", "l", "e">>

L_Female == <<"F", "e", "m", "a", "l", "e">>

L_Baby == <<"B", "a", "b", "y">>

L_Young == <<"Y", "o", "u", "n", "g">>

L_Adult == <<"A", "d", "u", "l", "t">>

L_Senior == <<"S", "e", "n", "i", "o", "r">>

L_ADMIN_OR_UNKNOWN == <<"A", "D", "M", "I", "N", "_", "O", "R", "_", "U", "N", "K", "N", "O", "W", "N">>

L_No_Outcome_Yet == <<"N", "o", "_", "O", "u", "t", "c", "o", "m", "e", "_", "Y", "e", "t">>

L_Positive == <<"P", "o", "s", "i", "t", "i", "v", "e">>

L_Negative == <<"N", "e", "g", "a", "t", "i", "v", "e">>

L_Other_or_Partner == <<"O", "t", "h", "e", "r", "_", "o", "r", "_", "P", "a", "r", "t", "n", "e", "r">>

L_Admin_or_Unknown == <<"A", "d", "m", "i", "n", "_", "o", "r", "_", "U", "n", "k", "n", "o", "w", "n">>

L_ILL_MODERATE == <<"I", "L", "L", " ", "M", "O", "D", "E", "R", "A", "T", "E">>

----------------------------------------------------------------------------
(* The stages of ShelterDataCleaner, each a function from the table the    *)
(* cleaner holds to the table it holds afterwards.                         *)

clean_column_names(df) ==
    SetColumns(df, [i \in 1..Len(df.columns) |->
                        ReplaceChar(StrLower(StrStrip(df.columns[i])), " ", "_")])

ParseDateCol(df, col) ==
    IF HasCol(df, col)
    THEN LET old == Column(df, col)
         IN  SetCol(df, col, "datetime64", [r \in 1..NRows(df) |-> ToDatetime(old[r])])
    ELSE df

parse_dates(df) ==
    ParseDateCol(ParseDateCol(ParseDateCol(df, "dob"), "intake_date"), "outcome_date")

\* a fill that leaves a missing value missing
FillValueKeepNull(v) == v

\* one element of series.fillna("Unknown")
FillValue(v) == IF IsNull(v) THEN Str(L_Unknown) ELSE v

\* series.fillna("Unknown") under the column's own presence test
FillNa(df, col) ==
    IF HasCol(df, col)
    THEN LET old == Column(df, col)
         IN  SetCol(df, col, IF Dtype(df, col) = "string" THEN "string" ELSE "object",
                    [r \in 1..NRows(df) |-> FillValue(old[r])])
    ELSE df

RECURSIVE FillAll(_, _)
FillAll(df, cols) ==
    IF Len(cols) = 0 THEN df ELSE FillAll(FillNa(df, Head(cols)), Tail(cols))

fill_missing_values(df) ==
    FillAll(df, <<"animal_name", "secondary_color", "reason_for_intake",
                  "intake_subtype", "outcome_subtype", "jurisdiction", "crossing">>)

\* a normalization that forgets str.upper
NormTextKeepCase(v) ==
    IF v.t = "str" THEN Str(CollapseSpaces(StrStrip(v.s))) ELSE v

\* astype("string"), str.strip, str.replace(r"\s+", " "), str.upper; missing stays missing
NormText(v) ==
    IF v.t = "str" THEN Str(StrUpper(CollapseSpaces(StrStrip(v.s)))) ELSE v

NormCol(df, col) ==
    IF HasCol(df, col)
    THEN LET old == Column(df, col)
         IN  SetCol(df, col, "string", [r \in 1..NRows(df) |-> NormText(old[r])])
    ELSE df

RECURSIVE NormAll(_, _)
NormAll(df, cols) ==
    IF Len(cols) = 0 THEN df ELSE NormAll(NormCol(df, Head(cols)), Tail(cols))

FixTypos(df) ==
    IF HasCol(df, "intake_condition")
    THEN LET old == Column(df, "intake_condition")
         IN  SetCol(df, "intake_condition", Dtype(df, "intake_condition"),
                    [r \in 1..NRows(df) |->
                        IF IsText(old[r], "ILL MODERATETE") THEN Str(L_ILL_MODERATE)
                        ELSE old[r]])
    ELSE df

\* a normalization that corrects the typo before it folds the case
normalize_text_columns_typo_first(df) ==
    NormAll(FixTypos(df), <<"animal_type", "sex", "intake_condition", "intake_type",
                           "intake_subtype", "reason_for_intake", "outcome_type",
                           "outcome_subtype", "jurisdiction">>)

normalize_text_columns(df) ==
    FixTypos(NormAll(df, <<"animal_type", "sex", "intake_condition", "intake_type",
                           "intake_subtype", "reason_for_intake", "outcome_type",
                           "outcome_subtype", "jurisdiction">>))

\* a mapping that matches its two keys in any letter case
MapIntakeIsDeadAnyCase(v) ==
    Bool(v.t = "str" /\ Render(StrLower(v.s)) = "dead on intake")

\* series.map({...}).fillna(False).astype(bool): a value that is no key of the
\* mapping (a missing value, another text, a boolean) maps to NaN, then False
MapIntakeIsDead(v) ==
    IF IsText(v, "Alive on Intake") THEN Bool(FALSE)
    ELSE IF IsText(v, "Dead on Intake") THEN Bool(TRUE)
    ELSE Bool(FALSE)

fix_intake_is_dead(df) ==
    IF HasCol(df, "intake_is_dead")
    THEN LET old == Column(df, "intake_is_dead")
         IN  SetCol(df, "intake_is_dead", "bool",
                    [r \in 1..NRows(df) |-> MapIntakeIsDead(old[r])])
    ELSE df

\* astype("Int64").fillna(0).astype(int).astype(bool)
CastOutcomeAlive(v) ==
    LET k == IF v.t = "int" THEN v.n
             ELSE IF v.t = "bool" THEN (IF v.b THEN 1 ELSE 0)
             ELSE 0
    IN  Bool(k # 0)

fix_was_outcome_alive(df) ==
    IF HasCol(df, "was_outcome_alive")
    THEN LET old == Column(df, "was_outcome_alive")
         IN  SetCol(df, "was_outcome_alive", "bool",
                    [r \in 1..NRows(df) |-> CastOutcomeAlive(old[r])])
    ELSE df

\* (intake_date - dob).dt.days / 365.25 needs both columns, as datetimes:
\* a missing column is a KeyError, a column that is no datetime a TypeError
create_age_features_raises(df) ==
    IF HasCol(df, "intake_date") /\ HasCol(df, "dob")
    THEN <<Dtype(df, "intake_date"), Dtype(df, "dob")>> # <<"datetime64", "datetime64">>
    ELSE TRUE

AgeYears(intake, dob) ==
    IF intake.t = "date" /\ dob.t = "date" THEN Years(intake.n - dob.n) ELSE Null

\* a threshold test that is inclusive: age <= k
AgeLessOrEqual(age, k) == 4 * age.n <= 1461 * k

\* age < k for the float age = d / 365.25, i.e. 4 * d < 1461 * k
AgeLess(age, k) == 4 * age.n < 1461 * k

age_group(age) ==
    IF IsNull(age) THEN Str(L_Unknown)
    ELSE IF AgeLess(age, 1) THEN Str(L_Baby)
    ELSE IF AgeLess(age, 3) THEN Str(L_Young)
    ELSE IF AgeLess(age, 8) THEN Str(L_Adult)
    ELSE Str(L_Senior)

create_age_features(df) ==
    LET intake == Column(df, "intake_date")
        dob    == Column(df, "dob")
        age    == [r \in 1..NRows(df) |-> AgeYears(intake[r], dob[r])]
    IN  Assign(Assign(df, N_age_at_intake_years, "float64", age),
               N_age_group, "object", [r \in 1..NRows(df) |-> age_group(age[r])])

\* sex.astype("string").str.upper()
SexUpper(v) == IF v.t = "str" THEN Str(StrUpper(v.s)) ELSE Null

\* sex.replace({...}).where(sex.isin([...]), other="Unknown")
SexBase(sex) ==
    IF Text(sex) \in {"MALE", "FEMALE", "UNKNOWN", "NEUTERED", "SPAYED"}
    THEN (IF Text(sex) = "NEUTERED" THEN Str(L_Male)
          ELSE IF Text(sex) = "SPAYED" THEN Str(L_Female)
          ELSE sex)
    ELSE Str(L_Unknown)

\* a sterilization status that is False wherever it is not True
IsSterNeverNull(sex) == Bool(Text(sex) \in {"NEUTERED", "SPAYED"})

\* <NA>, then mask(NEUTERED or SPAYED, True), then mask(MALE or FEMALE, False)
IsSter(sex) ==
    LET m1 == IF Text(sex) \in {"NEUTERED", "SPAYED"} THEN Bool(TRUE) ELSE Null
    IN  IF Text(sex) \in {"MALE", "FEMALE"} THEN Bool(FALSE) ELSE m1

create_sex_features(df) ==
    IF ~HasCol(df, "sex")
    THEN Assign(Assign(df, N_sex_base, "object", [r \in 1..NRows(df) |-> Str(L_Unknown)]),
                N_is_sterilized, "boolean", [r \in 1..NRows(df) |-> Null])
    ELSE LET sex == Column(df, "sex")
         IN  Assign(Assign(df, N_sex_base, "string",
                           [r \in 1..NRows(df) |-> SexBase(SexUpper(sex[r]))]),
                    N_is_sterilized, "boolean",
                    [r \in 1..NRows(df) |-> IsSter(SexUpper(sex[r]))])

positive == {"ADOPTION", "RETURN TO OWNER", "COMMUNITY CAT", "RETURN TO WILD HABITAT",
             "HOMEFIRST", "FOSTER TO ADOPT"}

negative == {"EUTHANASIA", "DIED", "DISPOSAL"}

partner == {"TRANSFER", "RESCUE", "TRANSPORT", "SHELTER, NEUTER, RETURN"}

admin == {"MISSING", "DUPLICATE"}

\* self.df["outcome_is_current"] == True, False for every row without the column
CurrentMask(df) ==
    IF HasCol(df, "outcome_is_current")
    THEN LET col == Column(df, "outcome_is_current")
         IN  [r \in 1..NRows(df) |->
                (col[r].t = "bool" /\ col[r].b) \/ (col[r].t = "int" /\ col[r].n = 1)]
    ELSE [r \in 1..NRows(df) |-> FALSE]

\* an outcome_type that is all empty texts for a table without the column
OutcomeTypeOfBlank(df) ==
    IF HasCol(df, "outcome_type") THEN Column(df, "outcome_type")
    ELSE [r \in 1..NRows(df) |-> Str(<<>>)]

\* the outcome_type column, all missing for a table without it
OutcomeTypeOf(df) ==
    IF HasCol(df, "outcome_type") THEN Column(df, "outcome_type")
    ELSE [r \in 1..NRows(df) |-> Null]

\* series.mask(cond, value): value where cond holds, the series elsewhere
Mask(prev, cond, value) == IF cond THEN value ELSE prev

\* the five mask calls, applied one after the other to the default label
OutcomeGroup(current, otype) ==
    LET isin(S) == otype.t = "str" /\ Render(otype.s) \in S
        g0 == Str(L_ADMIN_OR_UNKNOWN)
        g1 == Mask(g0, current \/ IsNull(otype), Str(L_No_Outcome_Yet))
        g2 == Mask(g1, isin(positive), Str(L_Positive))
        g3 == Mask(g2, isin(negative), Str(L_Negative))
        g4 == Mask(g3, isin(partner), Str(L_Other_or_Partner))
    IN  Mask(g4, isin(admin), Str(L_Admin_or_Unknown))

create_outcome_group(df) ==
    LET current_mask == CurrentMask(df)
        outcome_type == OutcomeTypeOf(df)
    IN  Assign(df, N_outcome_group, "string",
               [r \in 1..NRows(df) |-> OutcomeGroup(current_mask[r], outcome_type[r])])

\* a range test that also rejects the age of exactly 40: (age < 0) | (age >= 40)
InvalidAgeInclusive(age) == age.t = "years" /\ (age.n < 0 \/ 4 * age.n >= 1461 * 40)

\* (age < 0) | (age > 40); a comparison with NaN is False
InvalidAge(age) == age.t = "years" /\ (age.n < 0 \/ 4 * age.n > 1461 * 40)

InvalidDuration(v) == v.t = "int" /\ v.n < 0

\* a validation of the age that nulls an invalid age and leaves its age_group
ValidateAgeKeepGroup(df) ==
    IF HasCol(df, "age_at_intake_years")
    THEN LET age == Column(df, "age_at_intake_years")
         IN  Assign(df, N_age_at_intake_years, "float64",
                    [r \in 1..NRows(df) |-> IF InvalidAge(age[r]) THEN Null ELSE age[r]])
    ELSE df

\* the first half of validate_fields: an invalid age becomes NaN and its
\* age_group "Unknown"
ValidateAge(df) ==
    IF HasCol(df, "age_at_intake_years")
    THEN LET age    == Column(df, "age_at_intake_years")
             group  == IF HasCol(df, "age_group") THEN Column(df, "age_group")
                       ELSE [r \in 1..NRows(df) |-> Null]
             nulled == Assign(df, N_age_at_intake_years, "float64",
                         [r \in 1..NRows(df) |-> IF InvalidAge(age[r]) THEN Null ELSE age[r]])
         IN  Assign(nulled, N_age_group, "object",
                    [r \in 1..NRows(df) |->
                        IF InvalidAge(age[r]) THEN Str(L_Unknown) ELSE group[r]])
    ELSE df

\* a validation of the duration that nulls a duration of 0 as well
ValidateDurationNonPositive(df) ==
    IF HasCol(df, "intake_duration")
    THEN LET old == Column(df, "intake_duration")
         IN  SetCol(df, "intake_duration", Dtype(df, "intake_duration"),
                    [r \in 1..NRows(df) |->
                        IF old[r].t = "int" /\ old[r].n <= 0 THEN Null ELSE old[r]])
    ELSE df

\* the second half of validate_fields: a negative duration becomes NaN
ValidateDuration(df) ==
    IF HasCol(df, "intake_duration")
    THEN LET old == Column(df, "intake_duration")
         IN  SetCol(df, "intake_duration", Dtype(df, "intake_duration"),
                    [r \in 1..NRows(df) |->
                        IF InvalidDuration(old[r]) THEN Null ELSE old[r]])
    ELSE df

validate_fields(df) == ValidateDuration(ValidateAge(df))

----------------------------------------------------------------------------
(* The raw table, as pd.read_csv hands it to the caller.  A column is named *)
(* here by the key its header is cleaned to.                               *)

ColKeys == <<"dob", "intake_date", "outcome_date", "sex", "outcome_type", "outcome_is_current", "intake_is_dead", "was_outcome_alive", "intake_duration", "animal_name", "jurisdiction", "primary_color", "intake_condition">>

\* the header of each column in the raw file
Header(k) ==
    CASE k = "dob" -> <<"D", "O", "B">>
      [] k = "intake_date" -> <<"I", "n", "t", "a", "k", "e", " ", "D", "a", "t", "e">>
      [] k = "outcome_date" -> <<"O", "u", "t", "c", "o", "m", "e", " ", "D", "a", "t", "e">>
      [] k = "sex" -> <<"S", "e", "x">>
      [] k = "outcome_type" -> <<"O", "u", "t", "c", "o", "m", "e", " ", "T", "y", "p", "e">>
      [] k = "outcome_is_current" -> <<"o", "u", "t", "c", "o", "m", "e", "_", "i", "s", "_", "c", "u", "r", "r", "e", "n", "t">>
      [] k = "intake_is_dead" -> <<"i", "n", "t", "a", "k", "e", "_", "i", "s", "_", "d", "e", "a", "d">>
      [] k = "was_outcome_alive" -> <<"w", "a", "s", "_", "o", "u", "t", "c", "o", "m", "e", "_", "a", "l", "i", "v", "e">>
      [] k = "intake_duration" -> <<"i", "n", "t", "a", "k", "e", "_", "d", "u", "r", "a", "t", "i", "o", "n">>
      [] k = "animal_name" -> <<"A", "n", "i", "m", "a", "l", " ", "N", "a", "m", "e", " ">>
      [] k = "jurisdiction" -> <<"J", "u", "r", "i", "s", "d", "i", "c", "t", "i", "o", "n">>
      [] k = "primary_color" -> <<"P", "r", "i", "m", "a", "r", "y", " ", "C", "o", "l", "o", "r">>
      [] k = "intake_condition" -> <<"I", "n", "t", "a", "k", "e", " ", "C", "o", "n", "d", "i", "t", "i", "o", "n">>

\* the raw cells tried for each column: missing, well-formed and malformed values
RawValues(k) ==
    CASE k = "dob" ->
        {Null,
         Str(<<"2", "0", "2", "0", "-", "0", "1", "-", "0", "1">>)}
      [] k = "intake_date" ->
        {Null,
         Str(<<"n", "/", "a">>),
         Str(<<"2", "0", "2", "1", "-", "0", "2", "-", "3", "0">>),
         Str(<<"2", "0", "1", "9", "-", "1", "2", "-", "3", "1">>),
         Str(<<"2", "0", "2", "0", "-", "0", "1", "-", "0", "1">>),
         Str(<<"2", "0", "2", "0", "-", "1", "2", "-", "3", "1">>),
         Str(<<"2", "0", "2", "1", "-", "0", "1", "-", "0", "1">>),
         Str(<<"2", "0", "2", "1", "-", "0", "6", "-", "0", "1">>),
         Str(<<"2", "0", "2", "2", "-", "1", "2", "-", "3", "1">>),
         Str(<<"2", "0", "2", "3", "-", "0", "1", "-", "0", "1">>),
         Str(<<"2", "0", "2", "7", "-", "1", "2", "-", "3", "1">>),
         Str(<<"2", "0", "2", "8", "-", "0", "1", "-", "0", "1">>),
         Str(<<"2", "0", "6", "0", "-", "0", "1", "-", "0", "1">>),
         Str(<<"2", "0", "6", "0", "-", "0", "1", "-", "0", "2">>),
         Str(<<"2", "0", "6", "5", "-", "0", "1", "-", "0", "1">>)}
      [] k = "outcome_date" ->
        {Str(<<"2", "0", "2", "1", "-", "0", "6", "-", "0", "1">>)}
      [] k = "sex" ->
        {Null,
         Str(<<"M", "a", "l", "e">>),
         Str(<<"F", "e", "m", "a", "l", "e">>),
         Str(<<"N", "e", "u", "t", "e", "r", "e", "d">>),
         Str(<<"S", "p", "a", "y", "e", "d">>),
         Str(<<"U", "n", "k", "n", "o", "w", "n">>),
         Str(<<" ", "s", "p", "a", "y", "e", "d">>),
         Str(<<"B", "u", "l", "l">>)}
      [] k = "outcome_type" ->
        {Null,
         Str(<<"A", "d", "o", "p", "t", "i", "o", "n">>),
         Str(<<"E", "u", "t", "h", "a", "n", "a", "s", "i", "a">>),
         Str(<<"T", "r", "a", "n", "s", "f", "e", "r">>),
         Str(<<"M", "i", "s", "s", "i", "n", "g">>),
         Str(<<"F", "o", "s", "t", "e", "r">>),
         Str(<<"r", "e", "t", "u", "r", "n", " ", " ", "t", "o", "\t", "o", "w", "n", "e", "r", " ">>)}
      [] k = "outcome_is_current" ->
        {Bool(TRUE),
         Bool(FALSE)}
      [] k = "intake_is_dead" ->
        {Null,
         Str(<<"A", "l", "i", "v", "e", " ", "o", "n", " ", "I", "n", "t", "a", "k", "e">>),
         Str(<<"D", "e", "a", "d", " ", "o", "n", " ", "I", "n", "t", "a", "k", "e">>),
         Str(<<"d", "e", "a", "d", " ", "o", "n", " ", "i", "n", "t", "a", "k", "e">>)}
      [] k = "was_outcome_alive" ->
        {Null,
         IntV(0),
         IntV(1)}
      [] k = "intake_duration" ->
        {Null,
         IntV(-1),
         IntV(0),
         IntV(5)}
      [] k = "animal_name" ->
        {Null,
         Str(<<"R", "e", "x">>)}
      [] k = "jurisdiction" ->
        {Null,
         Str(<<"L", "o", "n", "g", " ", " ", "B", "e", "a", "c", "h">>)}
      [] k = "primary_color" ->
        {Null,
         Str(<<"B", "l", "a", "c", "k">>)}
      [] k = "intake_condition" ->
        {Null,
         Str(<<"I", "l", "l", " ", "M", "o", "d", "e", "r", "a", "t", "e", "t", "e">>),
         Str(<<" ", "i", "l", "l", " ", " ", "M", "O", "D", "E", "R", "A", "T", "E", "T", "E">>),
         Str(<<"I", "L", "L", "\t", "M", "O", "D", "E", "R", "A", "T", "E", "T", "E", " ">>),
         Str(<<"I", "l", "l", " ", "M", "o", "d", "e", "r", "a", "t", "e">>),
         Str(<<"N", "o", "r", "m", "a", "l">>),
         Str(<<"N", "O", "R", "M", "A", "L", " ">>)}

\* the cell of a column that a table does not vary
DefaultValue(k) ==
    CASE k = "dob" -> Str(<<"2", "0", "2", "0", "-", "0", "1", "-", "0", "1">>)
      [] k = "intake_date" -> Str(<<"2", "0", "2", "1", "-", "0", "6", "-", "0", "1">>)
      [] k = "outcome_date" -> Str(<<"2", "0", "2", "1", "-", "0", "6", "-", "0", "1">>)
      [] k = "sex" -> Str(<<"M", "a", "l", "e">>)
      [] k = "outcome_type" -> Str(<<"A", "d", "o", "p", "t", "i", "o", "n">>)
      [] k = "outcome_is_current" -> Bool(FALSE)
      [] k = "intake_is_dead" -> Str(<<"A", "l", "i", "v", "e", " ", "o", "n", " ", "I", "n", "t", "a", "k", "e">>)
      [] k = "was_outcome_alive" -> IntV(1)
      [] k = "intake_duration" -> IntV(5)
      [] k = "animal_name" -> Str(<<"R", "e", "x">>)
      [] k = "jurisdiction" -> Str(<<"L", "o", "n", "g", " ", " ", "B", "e", "a", "c", "h">>)
      [] k = "primary_color" -> Str(<<"B", "l", "a", "c", "k">>)
      [] k = "intake_condition" -> Str(<<"N", "o", "r", "m", "a", "l">>)

KeySet == {ColKeys[i] : i \in 1..Len(ColKeys)}

\* the columns varied together; the other columns of a table hold their default
ColumnGroups ==
    {{"dob"}, {"intake_date"}, {"sex"}, {"outcome_type", "outcome_is_current"},
     {"intake_is_dead"}, {"was_outcome_alive"}, {"intake_duration"},
     {"animal_name"}, {"jurisdiction"}, {"primary_color"}, {"intake_condition"}}

\* the columns a raw file may lack
Droppable == {"dob", "intake_date", "sex", "outcome_type", "outcome_is_current",
              "intake_duration", "intake_condition"}

AbsentOptions(g) == SUBSET (g \cap Droppable)

RowsOf(g) ==
    LET choices == {h \in [g -> UNION {RawValues(k) : k \in g}] :
                        \A k \in g : h[k] \in RawValues(k)}
    IN  {[k \in KeySet |-> IF k \in g THEN h[k] ELSE DefaultValue(k)] : h \in choices}

\* further raw cells tried in the one-row tables: the other listed outcome types
\* and spellings of the sexes, in several letter cases and spacings, and flags
\* other than 0 and 1
MoreValues(k) ==
    CASE k = "outcome_type" ->
        {Str(<<"R", "e", "t", "u", "r", "n", " ", "T", "o", " ", "O", "w", "n", "e", "r">>),
         Str(<<"C", "O", "M", "M", "U", "N", "I", "T", "Y", " ", "C", "A", "T">>),
         Str(<<"r", "e", "t", "u", "r", "n", " ", "t", "o", " ", "w", "i", "l", "d", " ", "h", "a", "b", "i", "t", "a", "t">>),
         Str(<<"H", "o", "m", "e", "f", "i", "r", "s", "t">>),
         Str(<<" ", "F", "o", "s", "t", "e", "r", " ", " ", "T", "o", " ", "A", "d", "o", "p", "t">>),
         Str(<<"D", "I", "E", "D">>),
         Str(<<"D", "i", "s", "p", "o", "s", "a", "l">>),
         Str(<<"r", "e", "s", "c", "u", "e">>),
         Str(<<"T", "r", "a", "n", "s", "p", "o", "r", "t", " ">>),
         Str(<<"S", "h", "e", "l", "t", "e", "r", ",", " ", "N", "e", "u", "t", "e", "r", ",", " ", " ", "R", "e", "t", "u", "r", "n">>),
         Str(<<"d", "u", "p", "l", "i", "c", "a", "t", "e">>),
         Str(<<"e", "U", "T", "H", "A", "N", "A", "S", "I", "A">>)}
      [] k = "sex" ->
        {Str(<<"F", "E", "M", "A", "L", "E">>),
         Str(<<"m", "a", "l", "e">>),
         Str(<<"n", "e", "u", "t", "e", "r", "e", "d">>),
         Str(<<"S", "P", "A", "Y", "E", "D">>)}
      [] k = "was_outcome_alive" ->
        {IntV(2),
         IntV(-1)}
      [] OTHER -> {}

WideValues(k) == RawValues(k) \cup MoreValues(k)

\* the rows of the one-row tables
RowsOfWide(g) ==
    LET choices == {h \in [g -> UNION {WideValues(k) : k \in g}] :
                        \A k \in g : h[k] \in WideValues(k)}
    IN  {[k \in KeySet |-> IF k \in g THEN h[k] ELSE DefaultValue(k)] : h \in choices}

\* the dtype pd.read_csv infers for a column
InferDtype(vals) ==
    LET kinds == {vals[r].t : r \in 1..Len(vals)}
    IN  IF "str" \in kinds THEN "object"
        ELSE IF kinds = {"bool"} THEN "bool"
        ELSE IF "bool" \in kinds THEN "object"
        ELSE IF kinds = {"int"} THEN "int64"
        ELSE "float64"

RawTable(rows, absent) ==
    LET keys == SelectSeq(ColKeys, LAMBDA k : k \notin absent)
    IN  [columns |-> [i \in 1..Len(keys) |-> Header(keys[i])],
         names   |-> [i \in 1..Len(keys) |-> Render(Header(keys[i]))],
         dtypes  |-> [i \in 1..Len(keys) |->
                        InferDtype([r \in 1..Len(rows) |-> rows[r][keys[i]]])],
         data    |-> [r \in 1..Len(rows) |-> [i \in 1..Len(keys) |-> rows[r][keys[i]]]]]


----------------------------------------------------------------------------
(* What a path resolves to: nothing, a directory, or a file with its table. *)

PathEntry(kind, content) == [kind |-> kind, content |-> content]

\* the runs that are handed their raw table read no path
NoPath == PathEntry("unused", <<>>)

\* the runs of the loader and the cleaner open no database and no session
NoDb == <<>>

NoSession == [logged_in |-> FALSE, username |-> ""]

----------------------------------------------------------------------------
(* The caller and the cleaner object *)

FreshId(fr) == Cardinality(DOMAIN fr) + 1

\* an __init__ that keeps the caller's table itself: self.df = df
cleaner_init_alias(fr, ref) == [frames |-> fr, selfdf |-> ref]

\* __init__: self.df = df.copy(), a new frame object holding a copy
cleaner_init(fr, ref) ==
    [frames |-> (FreshId(fr) :> Copy(fr[ref])) @@ fr, selfdf |-> FreshId(fr)]

Init ==
    /\ \E g \in ColumnGroups : \E absent \in AbsentOptions(g) : \E n \in 1..MaxRows :
          \E rows \in [1..n -> RowsOf(g)] :
             frames = (1 :> RawTable(rows, absent))
    /\ rawRef = 1
    /\ selfdf = 0
    /\ pc = "new"
    /\ calls = 0
    /\ env = NoPath
    /\ db = NoDb
    /\ session = NoSession

\* cleaner = ShelterDataCleaner(raw)
Construct ==
    /\ pc = "new"
    /\ frames' = cleaner_init(frames, rawRef).frames
    /\ selfdf' = cleaner_init(frames, rawRef).selfdf
    /\ pc' = "ready"
    /\ UNCHANGED <<rawRef, calls, env, db, session>>

\* the table the cleaner holds
df == frames[selfdf]

\* the end of a stage of a running finalize: self.df is newdf, control moves to next
Advance(next, newdf) ==
    /\ frames' = [frames EXCEPT ![selfdf] = newdf]
    /\ pc' = next
    /\ UNCHANGED <<rawRef, selfdf, calls, env, db, session>>

\* cleaner.finalize() is entered
FinalizeCall ==
    /\ pc = "ready"
    /\ pc' = "clean_column_names"
    /\ UNCHANGED <<frames, rawRef, selfdf, calls, env, db, session>>

StepCleanColumnNames ==
    /\ pc = "clean_column_names"
    /\ Advance("parse_dates", clean_column_names(df))

StepParseDates ==
    /\ pc = "parse_dates"
    /\ Advance("fill_missing_values", parse_dates(df))

StepFillMissingValues ==
    /\ pc = "fill_missing_values"
    /\ Advance("normalize_text_columns", fill_missing_values(df))

StepNormalizeTextColumns ==
    /\ pc = "normalize_text_columns"
    /\ Advance("fix_intake_is_dead", normalize_text_columns(df))

StepFixIntakeIsDead ==
    /\ pc = "fix_intake_is_dead"
    /\ Advance("fix_was_outcome_alive", fix_intake_is_dead(df))

StepFixWasOutcomeAlive ==
    /\ pc = "fix_was_outcome_alive"
    /\ Advance("create_age_features", fix_was_outcome_alive(df))

\* the exception leaves finalize: no later stage runs, nothing is returned
StepCreateAgeFeaturesRaises ==
    /\ pc = "create_age_features"
    /\ create_age_features_raises(df)
    /\ pc' = "raised"
    /\ UNCHANGED <<frames, rawRef, selfdf, calls, env, db, session>>

StepCreateAgeFeatures ==
    /\ pc = "create_age_features"
    /\ ~create_age_features_raises(df)
    /\ Advance("create_sex_features", create_age_features(df))

StepCreateSexFeatures ==
    /\ pc = "create_sex_features"
    /\ Advance("create_outcome_group", create_sex_features(df))

StepCreateOutcomeGroup ==
    /\ pc = "create_outcome_group"
    /\ Advance("validate_fields", create_outcome_group(df))

\* the last stage; finalize then returns self.df
StepValidateFields ==
    /\ pc = "validate_fields"
    /\ Advance("returned", validate_fields(df))

Next ==
    \/ Construct
    \/ FinalizeCall
    \/ StepCleanColumnNames
    \/ StepParseDates
    \/ StepFillMissingValues
    \/ StepNormalizeTextColumns
    \/ StepFixIntakeIsDead
    \/ StepFixWasOutcomeAlive
    \/ StepCreateAgeFeaturesRaises
    \/ StepCreateAgeFeatures
    \/ StepCreateSexFeatures
    \/ StepCreateOutcomeGroup
    \/ StepValidateFields

Spec == Init /\ [][Next]_vars

----------------------------------------------------------------------------
(* Direct calls: the caller builds a cleaner on a one-row raw table and    *)
(* calls its public methods, the stages and finalize, in any order.        *)

\* create_age_features as the caller sees it: the exception leaves self.df as it was
try_create_age_features(t) ==
    IF create_age_features_raises(t) THEN t ELSE create_age_features(t)

\* finalize run to its end, or to the stage that raises
finalize(t) ==
    LET coerced == fix_was_outcome_alive(fix_intake_is_dead(normalize_text_columns(
                       fill_missing_values(parse_dates(clean_column_names(t))))))
    IN  IF create_age_features_raises(coerced) THEN coerced
        ELSE validate_fields(create_outcome_group(create_sex_features(
                 create_age_features(coerced))))

InitCalls ==
    /\ \E g \in ColumnGroups : \E absent \in AbsentOptions(g) :
          \E rows \in [{1} -> RowsOf(g)] :
             frames = (1 :> RawTable(rows, absent))
    /\ rawRef = 1
    /\ selfdf = 0
    /\ pc = "new"
    /\ calls = 0
    /\ env = NoPath
    /\ db = NoDb
    /\ session = NoSession

\* one method call returning to the caller: self.df is newdf
Call(newdf) ==
    /\ calls < MaxCalls
    /\ frames' = [frames EXCEPT ![selfdf] = newdf]
    /\ calls' = calls + 1
    /\ UNCHANGED <<rawRef, selfdf, pc, env, db, session>>

CallCleanColumnNames ==
    /\ pc = "ready"
    /\ Call(clean_column_names(df))

CallParseDates ==
    /\ pc = "ready"
    /\ Call(parse_dates(df))

CallFillMissingValues ==
    /\ pc = "ready"
    /\ Call(fill_missing_values(df))

CallNormalizeTextColumns ==
    /\ pc = "ready"
    /\ Call(normalize_text_columns(df))

CallFixIntakeIsDead ==
    /\ pc = "ready"
    /\ Call(fix_intake_is_dead(df))

CallFixWasOutcomeAlive ==
    /\ pc = "ready"
    /\ Call(fix_was_outcome_alive(df))

CallCreateAgeFeatures ==
    /\ pc = "ready"
    /\ Call(try_create_age_features(df))

CallCreateSexFeatures ==
    /\ pc = "ready"
    /\ Call(create_sex_features(df))

CallCreateOutcomeGroup ==
    /\ pc = "ready"
    /\ Call(create_outcome_group(df))

CallValidateFields ==
    /\ pc = "ready"
    /\ Call(validate_fields(df))

CallFinalize ==
    /\ pc = "ready"
    /\ Call(finalize(df))

NextCalls ==
    \/ Construct
    \/ CallCleanColumnNames
    \/ CallParseDates
    \/ CallFillMissingValues
    \/ CallNormalizeTextColumns
    \/ CallFixIntakeIsDead
    \/ CallFixWasOutcomeAlive
    \/ CallCreateAgeFeatures
    \/ CallCreateSexFeatures
    \/ CallCreateOutcomeGroup
    \/ CallValidateFields
    \/ CallFinalize

SpecCalls == InitCalls /\ [][NextCalls]_vars

----------------------------------------------------------------------------
(* Properties of the table returned by finalize *)

\* finalize has returned self.df
Returned == pc = "returned"

\* the caller's raw table, its columns looked up by their cleaned names
RawByKey == clean_column_names(frames[rawRef])

OutcomeLabels ==
    {"Positive", "Negative", "Other_or_Partner", "Admin_or_Unknown", "No_Outcome_Yet"}

\* the number of rows of the returned table whose outcome_group is label
CountOutcome(label) ==
    Cardinality({r \in 1..NRows(df) : Text(Cell(df, r, "outcome_group")) = label})

\* C1: in the table returned by finalize every row's outcome_group is one of the
\* five labels Positive, Negative, Other_or_Partner, Admin_or_Unknown,
\* No_Outcome_Yet, and the five label counts add up to the row count.
C1_OutcomeGroupIsOneOfFive ==
    Returned =>
        /\ \A r \in 1..NRows(df) : Text(Cell(df, r, "outcome_group")) \in OutcomeLabels
        /\ CountOutcome("Positive") + CountOutcome("Negative")
             + CountOutcome("Other_or_Partner") + CountOutcome("Admin_or_Unknown")
             + CountOutcome("No_Outcome_Yet") = NRows(df)

\* C2: in the table returned by finalize every row whose outcome_is_current flag
\* is true has outcome_group No_Outcome_Yet, whatever its outcome_type.
C2_CurrentRowsAreNoOutcomeYet ==
    Returned /\ HasCol(df, "outcome_is_current") =>
        \A r \in 1..NRows(df) :
            Cell(df, r, "outcome_is_current") = Bool(TRUE)
                => Text(Cell(df, r, "outcome_group")) = "No_Outcome_Yet"

\* C3: in the table returned by finalize every row's sex_base is one of Male,
\* Female, Unknown, and an intact male and a neutered male have the same sex_base.
C3_SexBaseIsOneOfThree ==
    Returned =>
        /\ \A r \in 1..NRows(df) :
              Text(Cell(df, r, "sex_base")) \in {"Male", "Female", "Unknown"}
        /\ HasCol(df, "sex") =>
              \A r1, r2 \in 1..NRows(df) :
                  /\ Text(Cell(df, r1, "sex")) = "MALE"
                  /\ Text(Cell(df, r2, "sex")) = "NEUTERED"
                  => Cell(df, r1, "sex_base") = Cell(df, r2, "sex_base")

\* C4: in the table returned by finalize is_sterilized is null exactly in the
\* rows whose sex_base is the label Unknown.
C4_SterilizedNullIffSexUnknown ==
    Returned =>
        \A r \in 1..NRows(df) :
            IsNull(Cell(df, r, "is_sterilized")) <=> Text(Cell(df, r, "sex_base")) = "Unknown"

\* the raw table has no dob column or no intake_date column
RawLacksDateColumn == ~HasCol(RawByKey, "dob") \/ ~HasCol(RawByKey, "intake_date")

\* C5: for a raw table without a dob or without an intake_date column finalize
\* raises no error, and every row of the table it returns has a null
\* age_at_intake_years and the age_group Unknown.
C5_AbsentDateColumnGivesUnknownAge ==
    RawLacksDateColumn =>
        /\ pc # "raised"
        /\ Returned =>
              \A r \in 1..NRows(df) :
                  /\ IsNull(Cell(df, r, "age_at_intake_years"))
                  /\ Text(Cell(df, r, "age_group")) = "Unknown"

\* C6: every stage is idempotent: on the table the cleaner holds at any point of
\* finalize, applying a stage twice gives the same table as applying it once.
C6_EveryStageIdempotent ==
    pc # "new" =>
        /\ clean_column_names(clean_column_names(df)) = clean_column_names(df)
        /\ parse_dates(parse_dates(df)) = parse_dates(df)
        /\ fill_missing_values(fill_missing_values(df)) = fill_missing_values(df)
        /\ normalize_text_columns(normalize_text_columns(df)) = normalize_text_columns(df)
        /\ fix_intake_is_dead(fix_intake_is_dead(df)) = fix_intake_is_dead(df)
        /\ fix_was_outcome_alive(fix_was_outcome_alive(df)) = fix_was_outcome_alive(df)
        /\ try_create_age_features(try_create_age_features(df)) = try_create_age_features(df)
        /\ create_sex_features(create_sex_features(df)) = create_sex_features(df)
        /\ create_outcome_group(create_outcome_group(df)) = create_outcome_group(df)
        /\ validate_fields(validate_fields(df)) = validate_fields(df)

AgeGroupLabels == {"Baby", "Young", "Adult", "Senior", "Unknown"}

\* C7: in the table returned by finalize every row's age_group is one of Baby,
\* Young, Adult, Senior, Unknown, and it is Unknown exactly when
\* age_at_intake_years is null.
C7_AgeGroupUnknownIffAgeNull ==
    Returned =>
        \A r \in 1..NRows(df) :
            /\ Text(Cell(df, r, "age_group")) \in AgeGroupLabels
            /\ Text(Cell(df, r, "age_group")) = "Unknown"
                  <=> IsNull(Cell(df, r, "age_at_intake_years"))

\* whole days from dob to intake_date in row r of the returned table
DaysAtIntake(r) == Cell(df, r, "intake_date").n - Cell(df, r, "dob").n

BothDatesKnown(r) ==
    Cell(df, r, "intake_date").t = "date" /\ Cell(df, r, "dob").t = "date"

\* finalize returned a row whose age was computed above 40 and then nulled
C7_Witness ==
    /\ Returned
    /\ \E r \in 1..NRows(df) :
          /\ BothDatesKnown(r)
          /\ 4 * DaysAtIntake(r) > 1461 * 40
          /\ IsNull(Cell(df, r, "age_at_intake_years"))
          /\ Text(Cell(df, r, "age_group")) = "Unknown"

\* C8: in the table returned by finalize age_at_intake_years is null or within
\* [0, 40] and intake_duration is null or at least 0; an age of exactly 0 or 40
\* and a duration of exactly 0 are kept.
C8_ValidatedRanges ==
    Returned =>
        \A r \in 1..NRows(df) :
            LET age == Cell(df, r, "age_at_intake_years")
            IN  /\ IsNull(age) \/ (age.t = "years" /\ age.n >= 0 /\ 4 * age.n <= 1461 * 40)
                /\ BothDatesKnown(r) /\ 4 * DaysAtIntake(r) \in {0, 1461 * 40}
                      => age = Years(DaysAtIntake(r))
                /\ HasCol(df, "intake_duration") =>
                      LET dur == Cell(df, r, "intake_duration")
                      IN  /\ IsNull(dur) \/ (dur.t = "int" /\ dur.n >= 0)
                          /\ Cell(RawByKey, r, "intake_duration") = IntV(0) => dur = IntV(0)

\* finalize returned a row whose age is exactly 40 years
C8_Witness ==
    /\ Returned
    /\ \E r \in 1..NRows(df) :
          /\ Cell(df, r, "age_at_intake_years").t = "years"
          /\ 4 * Cell(df, r, "age_at_intake_years").n = 1461 * 40


\* a raw date cell that is missing or is a text that is no valid date
RawDateUnusable(v) == IsNull(v) \/ (v.t = "str" /\ ~IsIsoDate(v.s))

\* the columns of the model's raw tables that fill_missing_values fills
FilledColumns == {"animal_name", "jurisdiction"}

\* C9: for a raw table that has its date columns, whatever malformed or missing
\* dates, missing categorical values or out-of-range numbers its rows hold,
\* finalize raises no error and returns as many rows as the raw table has, every
\* offending value being null or the sentinel Unknown in the returned table.
C9_RowLevelConditionsNeverAbort ==
    HasCol(RawByKey, "dob") /\ HasCol(RawByKey, "intake_date") =>
        /\ pc # "raised"
        /\ Returned =>
              /\ NRows(df) = NRows(frames[rawRef])
              /\ \A r \in 1..NRows(df) :
                    /\ \A c \in {"dob", "intake_date", "outcome_date"} :
                          RawDateUnusable(Cell(RawByKey, r, c)) => IsNull(Cell(df, r, c))
                    /\ \A c \in FilledColumns :
                          HasCol(RawByKey, c) /\ IsNull(Cell(RawByKey, r, c))
                              => Cell(df, r, c) \in {Null, Str(L_Unknown)}
                    /\ HasCol(RawByKey, "intake_duration")
                          /\ InvalidDuration(Cell(RawByKey, r, "intake_duration"))
                              => IsNull(Cell(df, r, "intake_duration"))
                    /\ BothDatesKnown(r) /\ InvalidAge(Years(DaysAtIntake(r)))
                          => IsNull(Cell(df, r, "age_at_intake_years"))

\* C10: the caller's raw table is never changed: no step of the caller or of the
\* cleaner (the construction, a stage call, finalize) changes a column label, a
\* dtype or a cell of the table the caller handed in.
C10_RawTableNeverMutated == [][frames'[rawRef] = frames[rawRef]]_vars

\* the cleaner has been called and holds a table that differs from the raw one
C10_Witness ==
    /\ pc = "ready"
    /\ calls > 0
    /\ selfdf # rawRef
    /\ frames[selfdf] # frames[rawRef]

----------------------------------------------------------------------------
(* Two callers: each builds a cleaner of its own on the one raw table and  *)
(* runs finalize; the stages of the two runs interleave in any order.      *)
(* Here selfdf and pc hold one entry per cleaner.                          *)

Cleaners == {1, 2}

InitTwo ==
    /\ \E g \in ColumnGroups : \E absent \in AbsentOptions(g) :
          \E rows \in [{1} -> RowsOf(g)] :
             frames = (1 :> RawTable(rows, absent))
    /\ rawRef = 1
    /\ selfdf = [i \in Cleaners |-> 0]
    /\ pc = [i \in Cleaners |-> "new"]
    /\ calls = 0
    /\ env = NoPath
    /\ db = NoDb
    /\ session = NoSession

\* the table cleaner i holds
dfOf(i) == frames[selfdf[i]]

\* cleaner i = ShelterDataCleaner(raw)
TwoConstruct ==
    \E i \in Cleaners :
        /\ pc[i] = "new"
        /\ frames' = cleaner_init(frames, rawRef).frames
        /\ selfdf' = [selfdf EXCEPT ![i] = cleaner_init(frames, rawRef).selfdf]
        /\ pc' = [pc EXCEPT ![i] = "ready"]
        /\ UNCHANGED <<rawRef, calls, env, db, session>>

\* cleaner i ends a stage of its finalize: its self.df is newdf
TwoAdvance(i, next, newdf) ==
    /\ frames' = [frames EXCEPT ![selfdf[i]] = newdf]
    /\ pc' = [pc EXCEPT ![i] = next]
    /\ UNCHANGED <<rawRef, selfdf, calls, env, db, session>>

TwoFinalizeCall ==
    \E i \in Cleaners :
        /\ pc[i] = "ready"
        /\ pc' = [pc EXCEPT ![i] = "clean_column_names"]
        /\ UNCHANGED <<frames, rawRef, selfdf, calls, env, db, session>>

TwoCleanColumnNames ==
    \E i \in Cleaners :
        /\ pc[i] = "clean_column_names"
        /\ TwoAdvance(i, "parse_dates", clean_column_names(dfOf(i)))

TwoParseDates ==
    \E i \in Cleaners :
        /\ pc[i] = "parse_dates"
        /\ TwoAdvance(i, "fill_missing_values", parse_dates(dfOf(i)))

TwoFillMissingValues ==
    \E i \in Cleaners :
        /\ pc[i] = "fill_missing_values"
        /\ TwoAdvance(i, "normalize_text_columns", fill_missing_values(dfOf(i)))

TwoNormalizeTextColumns ==
    \E i \in Cleaners :
        /\ pc[i] = "normalize_text_columns"
        /\ TwoAdvance(i, "fix_intake_is_dead", normalize_text_columns(dfOf(i)))

TwoFixIntakeIsDead ==
    \E i \in Cleaners :
        /\ pc[i] = "fix_intake_is_dead"
        /\ TwoAdvance(i, "fix_was_outcome_alive", fix_intake_is_dead(dfOf(i)))

TwoFixWasOutcomeAlive ==
    \E i \in Cleaners :
        /\ pc[i] = "fix_was_outcome_alive"
        /\ TwoAdvance(i, "create_age_features", fix_was_outcome_alive(dfOf(i)))

TwoCreateAgeFeaturesRaises ==
    \E i \in Cleaners :
        /\ pc[i] = "create_age_features"
        /\ create_age_features_raises(dfOf(i))
        /\ pc' = [pc EXCEPT ![i] = "raised"]
        /\ UNCHANGED <<frames, rawRef, selfdf, calls, env, db, session>>

TwoCreateAgeFeatures ==
    \E i \in Cleaners :
        /\ pc[i] = "create_age_features"
        /\ ~create_age_features_raises(dfOf(i))
        /\ TwoAdvance(i, "create_sex_features", create_age_features(dfOf(i)))

TwoCreateSexFeatures ==
    \E i \in Cleaners :
        /\ pc[i] = "create_sex_features"
        /\ TwoAdvance(i, "create_outcome_group", create_sex_features(dfOf(i)))

TwoCreateOutcomeGroup ==
    \E i \in Cleaners :
        /\ pc[i] = "create_outcome_group"
        /\ TwoAdvance(i, "validate_fields", create_outcome_group(dfOf(i)))

TwoValidateFields ==
    \E i \in Cleaners :
        /\ pc[i] = "validate_fields"
        /\ TwoAdvance(i, "returned", validate_fields(dfOf(i)))

NextTwo ==
    \/ TwoConstruct
    \/ TwoFinalizeCall
    \/ TwoCleanColumnNames
    \/ TwoParseDates
    \/ TwoFillMissingValues
    \/ TwoNormalizeTextColumns
    \/ TwoFixIntakeIsDead
    \/ TwoFixWasOutcomeAlive
    \/ TwoCreateAgeFeaturesRaises
    \/ TwoCreateAgeFeatures
    \/ TwoCreateSexFeatures
    \/ TwoCreateOutcomeGroup
    \/ TwoValidateFields

SpecTwo == InitTwo /\ [][NextTwo]_vars

\* cleaner i has been built
Built(i) == pc[i] # "new"

\* a finalize that has ended, by returning or by raising, holds the table a run
\* on its own of the raw table ends with
TwoEndsAsAlone ==
    \A i \in Cleaners :
        pc[i] \in {"returned", "raised"} =>
            /\ dfOf(i) = finalize(frames[rawRef])
            /\ pc[i] = "raised" <=> create_age_features_raises(dfOf(i))

\* a step changes at most the table of the one cleaner that takes it, so no
\* cleaner reads what the other wrote, and the raw table stays as it was
TwoStepIsOwn ==
    \E i \in Cleaners :
        /\ \A j \in Cleaners \ {i} :
              /\ pc'[j] = pc[j]
              /\ Built(j) => selfdf'[j] = selfdf[j] /\ frames'[selfdf[j]] = frames[selfdf[j]]
        /\ Built(i) => selfdf[i] \notin {rawRef} \cup {selfdf[j] : j \in Cleaners \ {i}}
        /\ frames'[rawRef] = frames[rawRef]

\* C11: for every interleaving of the stages of two finalize runs on one raw
\* table, each run ends with the table a run on its own ends with, and no step
\* of one run changes the table of the other or the raw table.
C11_ConcurrentCleanersIndependent == [](TwoEndsAsAlone) /\ [][TwoStepIsOwn]_vars

\* one run has returned while the other is in the middle of its stages, and the
\* two hold different tables
C11_Witness ==
    /\ pc[1] = "returned"
    /\ pc[2] = "fix_intake_is_dead"
    /\ dfOf(1) # dfOf(2)
    /\ dfOf(1) = finalize(frames[rawRef])

----------------------------------------------------------------------------
(* The loader: ShelterDataLoader(filepath).load().  The path resolves to   *)
(* nothing, to a directory (as the default RAW_DATA_FILE, data/raw, may),  *)
(* to an empty file, or to a file holding a one-row table.                 *)

InitLoad ==
    /\ \/ env = PathEntry("absent", <<>>)
       \/ env = PathEntry("directory", <<>>)
       \/ env = PathEntry("empty_file", <<>>)
       \/ \E g \in ColumnGroups : \E absent \in AbsentOptions(g) :
             \E rows \in [{1} -> RowsOf(g)] :
                env = PathEntry("file", RawTable(rows, absent))
    /\ frames = <<>>
    /\ rawRef = 0
    /\ selfdf = 0
    /\ pc = "load"
    /\ calls = 0
    /\ db = NoDb
    /\ session = NoSession

\* Path.exists(): true of a file and of a directory alike
PathExists(entry) == entry.kind \in {"file", "empty_file", "directory"}

\* if not self.filepath.exists(): raise FileNotFoundError(...)
LoadRaisesNotFound ==
    /\ pc = "load"
    /\ ~PathExists(env)
    /\ pc' = "FileNotFoundError"
    /\ UNCHANGED <<frames, rawRef, selfdf, calls, env, db, session>>

\* the test passes: load goes on to pd.read_csv(self.filepath)
LoadGoesOnToRead ==
    /\ pc = "load"
    /\ PathExists(env)
    /\ pc' = "read_csv"
    /\ UNCHANGED <<frames, rawRef, selfdf, calls, env, db, session>>

\* pd.read_csv of a file with rows: the table is returned to the caller
ReadCsvReturns ==
    /\ pc = "read_csv"
    /\ env.kind = "file"
    /\ frames' = (1 :> env.content)
    /\ rawRef' = 1
    /\ pc' = "loaded"
    /\ UNCHANGED <<selfdf, calls, env, db, session>>

\* pd.read_csv of an empty file raises pandas.errors.EmptyDataError
ReadCsvEmpty ==
    /\ pc = "read_csv"
    /\ env.kind = "empty_file"
    /\ pc' = "EmptyDataError"
    /\ UNCHANGED <<frames, rawRef, selfdf, calls, env, db, session>>

\* pd.read_csv of a directory: open() raises IsADirectoryError on POSIX and
\* PermissionError on Windows
ReadCsvDirectory ==
    /\ pc = "read_csv"
    /\ env.kind = "directory"
    /\ pc' \in {"IsADirectoryError", "PermissionError"}
    /\ UNCHANGED <<frames, rawRef, selfdf, calls, env, db, session>>

NextLoad ==
    \/ LoadRaisesNotFound
    \/ LoadGoesOnToRead
    \/ ReadCsvReturns
    \/ ReadCsvEmpty
    \/ ReadCsvDirectory

SpecLoad == InitLoad /\ [][NextLoad]_vars

\* the path resolves to an existing file
IsExistingFile == env.kind \in {"file", "empty_file"}

\* C12: load fails with FileNotFoundError whenever its path does not resolve to
\* an existing file (nothing there, or a directory), and goes on to read only
\* when the path is an existing file, whatever the file holds.
C12_LoadFailsUnlessExistingFile ==
    /\ pc = "read_csv" => IsExistingFile
    /\ pc # "load" /\ ~IsExistingFile => pc = "FileNotFoundError"
    /\ pc = "FileNotFoundError" => ~IsExistingFile

----------------------------------------------------------------------------
(* One finalize run, stage by stage, on each of the one-row tables with    *)
(* the wider choice of raw cells.                                          *)

InitWide ==
    /\ \E g \in ColumnGroups : \E absent \in AbsentOptions(g) :
          \E rows \in [{1} -> RowsOfWide(g)] :
             frames = (1 :> RawTable(rows, absent))
    /\ rawRef = 1
    /\ selfdf = 0
    /\ pc = "new"
    /\ calls = 0
    /\ env = NoPath
    /\ db = NoDb
    /\ session = NoSession

SpecWide == InitWide /\ [][Next]_vars

\* a text without its letter case, its surrounding spaces and its repeated spaces
Canon(v) == Render(StrLower(CollapseSpaces(StrStrip(v.s))))

ListedPositive ==
    {"adoption", "return to owner", "community cat", "return to wild habitat",
     "homefirst", "foster to adopt"}

ListedNegative == {"euthanasia", "died", "disposal"}

ListedPartner == {"transfer", "rescue", "transport", "shelter, neuter, return"}

ListedAdmin == {"missing", "duplicate"}

Listed == ListedPositive \cup ListedNegative \cup ListedPartner \cup ListedAdmin

GroupOfListed(c) ==
    IF c \in ListedPositive THEN "Positive"
    ELSE IF c \in ListedNegative THEN "Negative"
    ELSE IF c \in ListedPartner THEN "Other_or_Partner"
    ELSE "Admin_or_Unknown"

\* row r of the raw table has a false outcome_is_current and a listed outcome_type
ListedAndNotCurrent(r) ==
    /\ HasCol(RawByKey, "outcome_is_current") /\ HasCol(RawByKey, "outcome_type")
    /\ Cell(RawByKey, r, "outcome_is_current") = Bool(FALSE)
    /\ Cell(RawByKey, r, "outcome_type").t = "str"
    /\ Canon(Cell(RawByKey, r, "outcome_type")) \in Listed

\* C13: in the table returned by finalize a row whose outcome_is_current is
\* false and whose raw outcome_type is a listed value, in any letter case and
\* spacing, has the group of that value: Positive, Negative, Other_or_Partner or
\* Admin_or_Unknown.
C13_ListedOutcomeTypesGrouped ==
    Returned =>
        \A r \in 1..NRows(df) :
            ListedAndNotCurrent(r) =>
                Text(Cell(df, r, "outcome_group"))
                    = GroupOfListed(Canon(Cell(RawByKey, r, "outcome_type")))

\* finalize returned a row with the raw outcome type 'Shelter, Neuter,  Return'
\* in Other_or_Partner
C13_Witness ==
    /\ Returned
    /\ ListedAndNotCurrent(1)
    /\ Canon(Cell(RawByKey, 1, "outcome_type")) = "shelter, neuter, return"
    /\ Text(Cell(df, 1, "outcome_group")) = "Other_or_Partner"

----------------------------------------------------------------------------
(* Properties of single stages, read where finalize has just run them *)

\* create_age_features has just run
AfterAgeFeatures == pc = "create_sex_features"

\* the age group of an age of d whole days, d / 365.25 years: below 1 year is up
\* to 365 days, below 3 years up to 1095 days, below 8 years up to 2921 days
GroupOfDays(d) ==
    IF d <= 365 THEN "Baby"
    ELSE IF d <= 1095 THEN "Young"
    ELSE IF d <= 2921 THEN "Adult"
    ELSE "Senior"

RawSex(r) ==
    IF HasCol(RawByKey, "sex") /\ Cell(RawByKey, r, "sex").t = "str"
    THEN Canon(Cell(RawByKey, r, "sex"))
    ELSE ""

\* C15: in the table finalize returns is_sterilized is true exactly for a raw
\* sex Neutered or Spayed and false exactly for a raw Male or Female, in any
\* letter case; Neutered has sex_base Male and Spayed has sex_base Female; a
\* table with no sex column has sex_base Unknown and a null is_sterilized.
C15_SterilizedFromRawSex ==
    Returned =>
        \A r \in 1..NRows(df) :
            /\ Cell(df, r, "is_sterilized") = Bool(TRUE)
                  <=> RawSex(r) \in {"neutered", "spayed"}
            /\ Cell(df, r, "is_sterilized") = Bool(FALSE)
                  <=> RawSex(r) \in {"male", "female"}
            /\ RawSex(r) = "neutered" => Text(Cell(df, r, "sex_base")) = "Male"
            /\ RawSex(r) = "spayed" => Text(Cell(df, r, "sex_base")) = "Female"
            /\ ~HasCol(RawByKey, "sex") =>
                  /\ Text(Cell(df, r, "sex_base")) = "Unknown"
                  /\ IsNull(Cell(df, r, "is_sterilized"))

\* finalize has returned a row whose raw sex was written SPAYED
C15_Witness ==
    /\ Returned
    /\ HasCol(RawByKey, "sex")
    /\ \E r \in 1..NRows(df) :
          /\ Text(Cell(RawByKey, r, "sex")) = "SPAYED"
          /\ Text(Cell(df, r, "sex_base")) = "Female"
          /\ Cell(df, r, "is_sterilized") = Bool(TRUE)


\* fix_intake_is_dead and fix_was_outcome_alive have just run
AfterBooleanCoercion == pc = "create_age_features"

\* C16: after the boolean coercion intake_is_dead is a boolean in every row,
\* true exactly where the raw cell is the text 'Dead on Intake' and false for
\* 'Alive on Intake', any other text and a missing cell; was_outcome_alive is a
\* boolean in every row, false for a missing cell and for 0, true for any other number.
C16_BooleanCoercion ==
    AfterBooleanCoercion =>
        /\ Dtype(df, "intake_is_dead") = "bool"
        /\ Dtype(df, "was_outcome_alive") = "bool"
        /\ \A r \in 1..NRows(df) :
              /\ Cell(df, r, "intake_is_dead") =
                     Bool(IsText(Cell(RawByKey, r, "intake_is_dead"), "Dead on Intake"))
              /\ Cell(df, r, "was_outcome_alive") =
                     Bool(/\ Cell(RawByKey, r, "was_outcome_alive").t = "int"
                          /\ Cell(RawByKey, r, "was_outcome_alive").n # 0)

\* the coercion has made false a cell that is 'dead on intake' in lower case
C16_Witness ==
    /\ AfterBooleanCoercion
    /\ \E r \in 1..NRows(df) :
          /\ IsText(Cell(RawByKey, r, "intake_is_dead"), "dead on intake")
          /\ Cell(df, r, "intake_is_dead") = Bool(FALSE)


----------------------------------------------------------------------------
(* The order of the stages within a run of finalize *)

Stages ==
    {"clean_column_names", "parse_dates", "fill_missing_values",
     "normalize_text_columns", "fix_intake_is_dead", "fix_was_outcome_alive",
     "create_age_features", "create_sex_features", "create_outcome_group",
     "validate_fields"}

\* where control is once the stage s of the fixed order has been executed
AfterStage(s) ==
    CASE s = "clean_column_names" -> "parse_dates"
      [] s = "parse_dates" -> "fill_missing_values"
      [] s = "fill_missing_values" -> "normalize_text_columns"
      [] s = "normalize_text_columns" -> "fix_intake_is_dead"
      [] s = "fix_intake_is_dead" -> "fix_was_outcome_alive"
      [] s = "fix_was_outcome_alive" -> "create_age_features"
      [] s = "create_age_features" -> "create_sex_features"
      [] s = "create_sex_features" -> "create_outcome_group"
      [] s = "create_outcome_group" -> "validate_fields"
      [] s = "validate_fields" -> "returned"

\* a step taken at a stage ends at the position after that stage
StageThenNext == pc \in Stages => pc' = AfterStage(pc)

\* C17: every run of finalize executes each stage exactly once in the fixed
\* order: from each stage control moves to the next stage of the order, from
\* validate_fields, the last one, to the return; so the sex and outcome stages
\* come after normalize_text_columns and validate_fields after create_age_features.
C17_EveryStageOnceInOrder == [][StageThenNext]_vars


----------------------------------------------------------------------------
(* What validate_fields changes *)

\* the step in which finalize runs validate_fields
ValidateStep == pc = "validate_fields" /\ pc' = "returned"

\* an age below 0 or above 40 years, 40 years being 14610 days
AgeOutsideRange(v) == v.t = "years" /\ (v.n < 0 \/ v.n > 14610)

DurationBelowZero(v) == v.t = "int" /\ v.n < 0

\* the cell validate_fields is to leave in row r of the column at position i
ValidatedCell(old, r, i) ==
    LET cell == old.data[r][i]
    IN  IF old.names[i] = "age_at_intake_years"
        THEN (IF AgeOutsideRange(cell) THEN Null ELSE cell)
        ELSE IF old.names[i] = "age_group"
        THEN (IF AgeOutsideRange(Cell(old, r, "age_at_intake_years"))
              THEN Str(L_Unknown) ELSE cell)
        ELSE IF old.names[i] = "intake_duration"
        THEN (IF DurationBelowZero(cell) THEN Null ELSE cell)
        ELSE cell

ValidateChangesOnlyOffendingCells ==
    ValidateStep =>
        /\ NRows(frames'[selfdf]) = NRows(df)
        /\ frames'[selfdf].columns = df.columns
        /\ \A r \in 1..NRows(df) : \A i \in 1..Len(df.names) :
              frames'[selfdf].data[r][i] = ValidatedCell(df, r, i)

\* C19: validate_fields drops no row and no column; it makes the age null and
\* the age_group Unknown exactly in the rows whose age is below 0 or above 40,
\* makes intake_duration null exactly where it is below 0, and leaves every
\* other cell as it was.
C19_ValidateFrameEffect == [][ValidateChangesOnlyOffendingCells]_vars

\* validate_fields has nulled the age of 45 years (16437 days) of a row and
\* made its age_group Unknown
C19_Witness ==
    /\ Returned
    /\ \E r \in 1..NRows(df) :
          /\ BothDatesKnown(r)
          /\ DaysAtIntake(r) = 16437
          /\ IsNull(Cell(df, r, "age_at_intake_years"))
          /\ Text(Cell(df, r, "age_group")) = "Unknown"


----------------------------------------------------------------------------
(* Rows without an outcome type *)

\* row r of the raw table has no outcome type: no such column, or a missing cell
RawOutcomeTypeMissing(r) ==
    ~HasCol(RawByKey, "outcome_type") \/ IsNull(Cell(RawByKey, r, "outcome_type"))

\* C20: in the table finalize returns every row whose outcome_type is null, and
\* every row of a table without an outcome_type column, has the outcome_group
\* No_Outcome_Yet, whatever outcome_is_current is and also without that column;
\* without the outcome_is_current column no row is taken as current, so a row
\* with an outcome type is not No_Outcome_Yet.
C20_MissingOutcomeTypeIsNoOutcomeYet ==
    Returned =>
        \A r \in 1..NRows(df) :
            /\ RawOutcomeTypeMissing(r) =>
                  Text(Cell(df, r, "outcome_group")) = "No_Outcome_Yet"
            /\ ~HasCol(RawByKey, "outcome_is_current") /\ ~RawOutcomeTypeMissing(r) =>
                  Text(Cell(df, r, "outcome_group")) # "No_Outcome_Yet"

\* finalize has returned No_Outcome_Yet for a table that has neither column
C20_Witness ==
    /\ Returned
    /\ ~HasCol(RawByKey, "outcome_type")
    /\ ~HasCol(RawByKey, "outcome_is_current")
    /\ \E r \in 1..NRows(df) : Text(Cell(df, r, "outcome_group")) = "No_Outcome_Yet"


----------------------------------------------------------------------------
(* The three derivation stages run in any order.  One cleaner runs finalize  *)
(* as written; a second one, built from the same raw table, runs the first   *)
(* six stages, then the three derivation stages in an order of its choice,   *)
(* then validate_fields.  Here pc is the position of the second cleaner and  *)
(* the stages it has run so far, and the frame after its own holds the table *)
(* the first cleaner ends with.                                              *)

Derivations == {"create_age_features", "create_sex_features", "create_outcome_group"}

InitOrders ==
    /\ \E g \in ColumnGroups : \E absent \in AbsentOptions(g) : \E n \in 1..MaxRows :
          \E rows \in [1..n -> RowsOf(g)] :
             frames = (1 :> RawTable(rows, absent))
    /\ rawRef = 1
    /\ selfdf = 0
    /\ pc = [at |-> "new", ran |-> <<>>]
    /\ calls = 0
    /\ env = NoPath
    /\ db = NoDb
    /\ session = NoSession

\* the table the cleaner of the fixed order ends with
fixeddf == frames[selfdf + 1]

HasRun(stage) == \E i \in 1..Len(pc.ran) : pc.ran[i] = stage

\* both cleaners are built and the fixed one runs its finalize
OrdersConstruct ==
    /\ pc.at = "new"
    /\ selfdf' = cleaner_init(frames, rawRef).selfdf
    /\ frames' = (selfdf' + 1 :> finalize(frames[rawRef]))
                     @@ cleaner_init(frames, rawRef).frames
    /\ pc' = [pc EXCEPT !.at = "ready"]
    /\ UNCHANGED <<rawRef, calls, env, db, session>>

\* the stages up to the boolean coercion, in their fixed order
OrdersCoerce ==
    /\ pc.at = "ready"
    /\ frames' = [frames EXCEPT ![selfdf] =
                     fix_was_outcome_alive(fix_intake_is_dead(normalize_text_columns(
                         fill_missing_values(parse_dates(clean_column_names(df))))))]
    /\ pc' = [pc EXCEPT !.at = "derive"]
    /\ UNCHANGED <<rawRef, selfdf, calls, env, db, session>>

\* a derivation stage that has not run yet runs next
Derive(stage, newdf) ==
    /\ pc.at = "derive"
    /\ ~HasRun(stage)
    /\ frames' = [frames EXCEPT ![selfdf] = newdf]
    /\ pc' = [pc EXCEPT !.ran = Append(pc.ran, stage)]
    /\ UNCHANGED <<rawRef, selfdf, calls, env, db, session>>

OrdersCreateAgeFeaturesRaises ==
    /\ pc.at = "derive"
    /\ ~HasRun("create_age_features")
    /\ create_age_features_raises(df)
    /\ pc' = [pc EXCEPT !.at = "raised"]
    /\ UNCHANGED <<frames, rawRef, selfdf, calls, env, db, session>>

OrdersCreateAgeFeatures ==
    /\ pc.at = "derive"
    /\ ~create_age_features_raises(df)
    /\ Derive("create_age_features", create_age_features(df))

OrdersCreateSexFeatures ==
    /\ pc.at = "derive"
    /\ Derive("create_sex_features", create_sex_features(df))

OrdersCreateOutcomeGroup ==
    /\ pc.at = "derive"
    /\ Derive("create_outcome_group", create_outcome_group(df))

\* validate_fields runs once the three derivation stages have run
OrdersValidateFields ==
    /\ pc.at = "derive"
    /\ \A stage \in Derivations : HasRun(stage)
    /\ frames' = [frames EXCEPT ![selfdf] = validate_fields(df)]
    /\ pc' = [pc EXCEPT !.at = "returned"]
    /\ UNCHANGED <<rawRef, selfdf, calls, env, db, session>>

NextOrders ==
    \/ OrdersConstruct
    \/ OrdersCoerce
    \/ OrdersCreateAgeFeaturesRaises
    \/ OrdersCreateAgeFeatures
    \/ OrdersCreateSexFeatures
    \/ OrdersCreateOutcomeGroup
    \/ OrdersValidateFields

SpecOrders == InitOrders /\ [][NextOrders]_vars

OrdersReturned == pc.at = "returned"

FixedOrder == <<"create_age_features", "create_sex_features", "create_outcome_group">>

\* the tables a and b have the same rows under the same column names, with the
\* same dtypes, whatever the positions of their columns
SameCellsByName(a, b) ==
    /\ NRows(a) = NRows(b)
    /\ Len(a.names) = Len(b.names)
    /\ {a.names[i] : i \in 1..Len(a.names)} = {b.names[i] : i \in 1..Len(b.names)}
    /\ \A i \in 1..Len(b.names) :
          /\ Dtype(a, b.names[i]) = b.dtypes[i]
          /\ \A r \in 1..NRows(b) : Cell(a, r, b.names[i]) = b.data[r][i]

\* C18 as stated: whatever the order of the three derivation stages, the final
\* table is the table of the fixed order.
C18_AnyOrderSameTable == OrdersReturned => df = fixeddf

\* C18 amended: whatever the order of the three derivation stages, the final
\* table has the columns of the table of the fixed order with the same cells;
\* the tables are equal when the order is the fixed one.
C18_AnyOrderSameCells ==
    OrdersReturned =>
        /\ SameCellsByName(df, fixeddf)
        /\ pc.ran = FixedOrder => df = fixeddf

\* the stages have run in the reverse of the fixed order and the final table
\* has its derived columns at other positions than the table of the fixed order
C18_Witness ==
    /\ OrdersReturned
    /\ pc.ran = <<"create_outcome_group", "create_sex_features", "create_age_features">>
    /\ df.names # fixeddf.names


----------------------------------------------------------------------------
(* What fill_missing_values changes *)

\* the step in which finalize runs fill_missing_values
FillStep == pc = "fill_missing_values" /\ pc' = "normalize_text_columns"

SevenFilledColumns ==
    {"animal_name", "secondary_color", "reason_for_intake", "intake_subtype",
     "outcome_subtype", "jurisdiction", "crossing"}

\* the cell fill_missing_values is to leave in row r of the column at position i
FilledCell(old, r, i) ==
    IF old.names[i] \in SevenFilledColumns /\ IsNull(old.data[r][i])
    THEN Str(L_Unknown)
    ELSE old.data[r][i]

FillChangesOnlyNullsOfTheSeven ==
    FillStep =>
        /\ NRows(frames'[selfdf]) = NRows(df)
        /\ frames'[selfdf].columns = df.columns
        /\ \A r \in 1..NRows(df) : \A i \in 1..Len(df.names) :
              frames'[selfdf].data[r][i] = FilledCell(df, r, i)

\* C21: fill_missing_values replaces exactly the null values of the seven
\* filled columns that are present by 'Unknown', adds no column for an absent
\* one, and leaves the non-null values of the seven and every cell of every
\* other column, the nulls of primary_color, outcome_type and sex included, as
\* they were.
C21_FillFrameEffect == [][FillChangesOnlyNullsOfTheSeven]_vars

\* fill_missing_values has run on a table without a secondary_color column and
\* has made a missing jurisdiction 'Unknown'
C21_Witness ==
    /\ pc = "normalize_text_columns"
    /\ ~HasCol(df, "secondary_color")
    /\ \E r \in 1..NRows(df) :
          /\ IsNull(Cell(RawByKey, r, "jurisdiction"))
          /\ Text(Cell(df, r, "jurisdiction")) = "Unknown"


----------------------------------------------------------------------------
(* The sentinel for a missing value in the returned table *)

\* the filled columns the raw tables have
FilledAndPresent(t) == {c \in SevenFilledColumns : HasCol(t, c)}

\* sex_base of row r stands for an unknown sex: it is none of the two sexes
SexBaseIsUnknown(r) ==
    Render(StrLower(Cell(df, r, "sex_base").s)) \notin {"male", "female"}

\* C22: in the table finalize returns, every value of a filled column that was
\* null in the raw input, every sex_base standing for an unknown sex and every
\* age_group of an unknown age is the one literal 'Unknown'.
C22_OneSentinelEverywhere ==
    Returned =>
        \A r \in 1..NRows(df) :
            /\ \A c \in FilledAndPresent(RawByKey) :
                  IsNull(Cell(RawByKey, r, c)) => Text(Cell(df, r, c)) = "Unknown"
            /\ SexBaseIsUnknown(r) => Text(Cell(df, r, "sex_base")) = "Unknown"
            /\ IsNull(Cell(df, r, "age_at_intake_years")) =>
                  Text(Cell(df, r, "age_group")) = "Unknown"


----------------------------------------------------------------------------
(* What normalize_text_columns changes *)

\* the step in which finalize runs normalize_text_columns
NormalizeStep == pc = "normalize_text_columns" /\ pc' = "fix_intake_is_dead"

NineCategoricalColumns ==
    {"animal_type", "sex", "intake_condition", "intake_type", "intake_subtype",
     "reason_for_intake", "outcome_type", "outcome_subtype", "jurisdiction"}

\* two cells are texts that differ at most in letter case, in outer whitespace
\* and in the length of their inner whitespace runs
SameUpToCaseAndSpacing(v, w) == v.t = "str" /\ w.t = "str" /\ Canon(v) = Canon(w)

\* the text s is in one casing, without outer whitespace and without a run of
\* more than one space
IsNormalized(s) ==
    /\ s = StrUpper(s)
    /\ s = StrStrip(s)
    /\ s = CollapseSpaces(s)

NormalizeEffect ==
    NormalizeStep =>
        /\ NRows(frames'[selfdf]) = NRows(df)
        /\ frames'[selfdf].columns = df.columns
        /\ \A r \in 1..NRows(df) : \A i \in 1..Len(df.names) :
              LET old == df.data[r][i]
                  new == frames'[selfdf].data[r][i]
              IN  IF df.names[i] \notin NineCategoricalColumns THEN new = old
                  ELSE IF old.t # "str" THEN new = old
                  ELSE /\ new.t = "str"
                       /\ IsNormalized(new.s)
                       /\ \A q \in 1..NRows(df) :
                             SameUpToCaseAndSpacing(old, df.data[q][i]) =>
                                 frames'[selfdf].data[q][i] = new
                       /\ df.names[i] = "intake_condition"
                              /\ Canon(old) \in {"ill moderatete", "ill moderate"}
                             => Render(new.s) = "ILL MODERATE"

\* C23: normalize_text_columns maps the values of a categorical column that
\* differ only in letter case, outer whitespace or the length of inner
\* whitespace runs to one value in one casing, keeps a null null, ends every
\* variant of the misspelled 'Ill Moderate' equal to the normalized 'Ill
\* Moderate', and leaves the columns outside the nine as they were.
C23_NormalizeTextEffect == [][NormalizeEffect]_vars

\* normalize_text_columns has run on a table whose intake_condition held the
\* misspelling in lower and upper case with a double space
C23_Witness ==
    /\ pc = "fix_intake_is_dead"
    /\ HasCol(df, "intake_condition")
    /\ \E r \in 1..NRows(df) :
          /\ Text(Cell(RawByKey, r, "intake_condition")) = " ill  MODERATETE"
          /\ Text(Cell(df, r, "intake_condition")) = "ILL MODERATE"


----------------------------------------------------------------------------
(* finalize called again on the cleaner that has returned *)

\* cleaner.finalize() a second time: every stage runs again on self.df
FinalizeAgain ==
    /\ pc = "returned"
    /\ Advance("returned_again", finalize(df))

NextAgain ==
    \/ Construct
    \/ FinalizeCall
    \/ StepCleanColumnNames
    \/ StepParseDates
    \/ StepFillMissingValues
    \/ StepNormalizeTextColumns
    \/ StepFixIntakeIsDead
    \/ StepFixWasOutcomeAlive
    \/ StepCreateAgeFeaturesRaises
    \/ StepCreateAgeFeatures
    \/ StepCreateSexFeatures
    \/ StepCreateOutcomeGroup
    \/ StepValidateFields
    \/ FinalizeAgain

SpecAgain == Init /\ [][NextAgain]_vars

SecondRun == pc = "returned" /\ pc' = "returned_again"

SecondRunKeepsTable == SecondRun => frames'[selfdf] = df

\* C24: a second call of finalize on the same cleaner returns a table equal to
\* the one the first call returned: no value of any column changes.
C24_SecondFinalizeReturnsSameTable == [][SecondRunKeepsTable]_vars


----------------------------------------------------------------------------
(* The account store, src/src/auth_db.py.  A database file holds the tables  *)
(* that were created in it; users maps a username, its primary key, to the   *)
(* password, logs is the sequence of the rows in the order of their ids.     *)

EmptyDb == [tables |-> {}, users |-> <<>>, logs |-> <<>>]

\* DB_PATH = DATA_DIR / "shelter.db", the file connect() opens
DB_PATH == "data/shelter.db"

\* the file logs_tab opens: PROJECT_ROOT / "data" / "app.db"
LogsTabPath == "data/app.db"

\* init_db: CREATE TABLE IF NOT EXISTS users, logs in the file at DB_PATH
init_db(d) ==
    [d EXCEPT ![DB_PATH] = [@ EXCEPT !.tables = @ \cup {"users", "logs"}]]

\* SELECT 1 FROM users WHERE username = ?
user_exists(d, username) == username \in DOMAIN d[DB_PATH].users

\* a login test that looks at the username only
check_login_username_only(d, username, password) ==
    username \in DOMAIN d[DB_PATH].users

\* SELECT 1 FROM users WHERE username = ? AND password = ?
check_login(d, username, password) ==
    /\ username \in DOMAIN d[DB_PATH].users
    /\ d[DB_PATH].users[username] = password

\* INSERT INTO users (username, password) VALUES (?, ?), for a username that
\* is not stored yet
InsertUser(d, username, password) ==
    [d EXCEPT ![DB_PATH] = [@ EXCEPT !.users = (username :> password) @@ @]]

Callers == {1, 2}

Usernames == {"ann", "bob"}

Passwords == {"pw1", "pw2"}

Idle == [at |-> "idle", username |-> "", password |-> "", result |-> FALSE]

\* the store after init_db, empty or holding the account of ann
InitAuth ==
    /\ \E stored \in {<<>>, "ann" :> "old"} :
          db = init_db((DB_PATH :> [EmptyDb EXCEPT !.users = stored])
                           @@ (LogsTabPath :> EmptyDb))
    /\ pc = [i \in Callers |-> Idle]
    /\ frames = <<>>
    /\ rawRef = 0
    /\ selfdf = 0
    /\ calls = 0
    /\ env = NoPath
    /\ session = NoSession

\* caller i enters create_user(username, password)
CreateUserCall ==
    \E i \in Callers : \E username \in Usernames : \E password \in Passwords :
        /\ pc[i].at = "idle"
        /\ pc' = [pc EXCEPT ![i] = [at |-> "user_exists", username |-> username,
                                    password |-> password, result |-> FALSE]]
        /\ UNCHANGED <<frames, rawRef, selfdf, calls, env, db, session>>

\* if user_exists(username): return False
CreateUserExists ==
    \E i \in Callers :
        /\ pc[i].at = "user_exists"
        /\ user_exists(db, pc[i].username)
        /\ pc' = [pc EXCEPT ![i].at = "returned", ![i].result = FALSE]
        /\ UNCHANGED <<frames, rawRef, selfdf, calls, env, db, session>>

\* the username is not stored: control goes on to the INSERT
CreateUserAbsent ==
    \E i \in Callers :
        /\ pc[i].at = "user_exists"
        /\ ~user_exists(db, pc[i].username)
        /\ pc' = [pc EXCEPT ![i].at = "insert"]
        /\ UNCHANGED <<frames, rawRef, selfdf, calls, env, db, session>>

\* INSERT, commit, return True
CreateUserInsert ==
    \E i \in Callers :
        /\ pc[i].at = "insert"
        /\ ~user_exists(db, pc[i].username)
        /\ db' = InsertUser(db, pc[i].username, pc[i].password)
        /\ pc' = [pc EXCEPT ![i].at = "returned", ![i].result = TRUE]
        /\ UNCHANGED <<frames, rawRef, selfdf, calls, env, session>>

\* the INSERT of a username stored in the meantime violates the primary key:
\* sqlite3.IntegrityError leaves create_user
CreateUserInsertFails ==
    \E i \in Callers :
        /\ pc[i].at = "insert"
        /\ user_exists(db, pc[i].username)
        /\ pc' = [pc EXCEPT ![i].at = "IntegrityError"]
        /\ UNCHANGED <<frames, rawRef, selfdf, calls, env, db, session>>

NextAuth ==
    \/ CreateUserCall
    \/ CreateUserExists
    \/ CreateUserAbsent
    \/ CreateUserInsert
    \/ CreateUserInsertFails

SpecAuth == InitAuth /\ [][NextAuth]_vars

users == db[DB_PATH].users

ReturnedTrue(i) == pc[i].at = "returned" /\ pc[i].result

ReturnedFalse(i) == pc[i].at = "returned" /\ ~pc[i].result

\* C25: create_user never fails with an error, stores the password of a call
\* that returned True, never changes the password of a stored account, and of
\* two calls for the same username at most one returns True.
C25_CreateUserExactlyOneWins ==
    /\ \A i \in Callers : pc[i].at # "IntegrityError"
    /\ \A i \in Callers :
          ReturnedTrue(i) => /\ user_exists(db, pc[i].username)
                             /\ users[pc[i].username] = pc[i].password
    /\ "ann" \in DOMAIN users /\ (\A i \in Callers : ~ReturnedTrue(i)) =>
          users["ann"] = "old"
    /\ \A i, j \in Callers :
          i # j /\ pc[i].username = pc[j].username =>
              ~(ReturnedTrue(i) /\ ReturnedTrue(j))


----------------------------------------------------------------------------
(* The app, src/app/app.py: one browser session.  Each action is one run of  *)
(* main for one event of the user; pc holds what the run ended on, the       *)
(* credentials it was given and the rows its Logs tab displayed.             *)

\* SELECT ... FROM logs ORDER BY id DESC LIMIT 50
LogsLimit == 50

\* a row of logs; its id is its position in the table
LogRow(username, action) == [username |-> username, action |-> action]

\* INSERT INTO logs (ts, username, action, details) in the file at DB_PATH
log_action(d, username, action) ==
    [d EXCEPT ![DB_PATH] = [@ EXCEPT !.logs = Append(@, LogRow(username, action))]]

\* the newest rows first, at most limit of them
NewestFirst(rows, limit) ==
    [i \in 1..(IF Len(rows) < limit THEN Len(rows) ELSE limit) |->
        rows[Len(rows) - i + 1]]

NoLogsShown == [error |-> FALSE, rows |-> <<>>]

\* logs_tab: the query on the file data/app.db; a file without a logs table
\* makes pd.read_sql_query raise DatabaseError
logs_tab(d) ==
    IF "logs" \in d[LogsTabPath].tables
    THEN [error |-> FALSE, rows |-> NewestFirst(d[LogsTabPath].logs, LogsLimit)]
    ELSE [error |-> TRUE, rows |-> <<>>]

\* username or "Unknown"
OrUnknown(username) == IF username = "" THEN "Unknown" ELSE username

Event(at, kind, username, password, ok, shown) ==
    [at |-> at, event |-> kind, username |-> username, password |-> password,
     ok |-> ok, shown |-> shown]

\* data/app.db as the app finds it: no such database, or one with a logs
\* table of its own
AppDbOptions ==
    {EmptyDb,
     [EmptyDb EXCEPT !.tables = {"logs"},
                     !.logs = <<LogRow("ann", "login_success")>>]}

\* the first run of main: init_db, the session defaults, the login screen
InitApp ==
    /\ \E stored \in {<<>>, "ann" :> "pw1"} : \E appdb \in AppDbOptions :
          db = init_db((DB_PATH :> [EmptyDb EXCEPT !.users = stored])
                           @@ (LogsTabPath :> appdb))
    /\ session = NoSession
    /\ pc = Event("login_screen", "open", "", "", FALSE, NoLogsShown)
    /\ frames = <<>>
    /\ rawRef = 0
    /\ selfdf = 0
    /\ calls = 0
    /\ env = NoPath

LogsRoom(k) == Len(db[DB_PATH].logs) + k <= MaxLogs

\* the Login form is submitted and check_login returns True
AppLoginSucceeds ==
    \E username \in Usernames \cup {""} : \E password \in Passwords :
        /\ pc.at = "login_screen"
        /\ ~session.logged_in
        /\ LogsRoom(1)
        /\ check_login(db, username, password)
        /\ session' = [logged_in |-> TRUE, username |-> username]
        /\ db' = log_action(db, username, "login_success")
        /\ pc' = Event("rerun", "login", username, password, TRUE, NoLogsShown)
        /\ UNCHANGED <<frames, rawRef, selfdf, calls, env>>

\* the Login form is submitted and check_login returns False
AppLoginFails ==
    \E username \in Usernames \cup {""} : \E password \in Passwords :
        /\ pc.at = "login_screen"
        /\ ~session.logged_in
        /\ LogsRoom(1)
        /\ ~check_login(db, username, password)
        /\ db' = log_action(db, OrUnknown(username), "login_failed")
        /\ pc' = Event("login_screen", "login", username, password, FALSE, NoLogsShown)
        /\ UNCHANGED <<frames, rawRef, selfdf, calls, env, session>>

\* the Register form is submitted with an empty field, two different
\* passwords or a username that exists: an error is shown
AppRegisterRejected ==
    \E new_user \in Usernames \cup {""} : \E new_pass \in Passwords \cup {""} :
      \E new_pass2 \in Passwords :
        /\ pc.at = "login_screen"
        /\ ~session.logged_in
        /\ new_user = "" \/ new_pass = "" \/ new_pass # new_pass2
               \/ user_exists(db, new_user)
        /\ pc' = Event("login_screen", "register", new_user, new_pass, FALSE, NoLogsShown)
        /\ UNCHANGED <<frames, rawRef, selfdf, calls, env, db, session>>

\* the Register form is submitted and create_user returns True
AppRegisterCreates ==
    \E new_user \in Usernames : \E new_pass \in Passwords :
        /\ pc.at = "login_screen"
        /\ ~session.logged_in
        /\ LogsRoom(1)
        /\ ~user_exists(db, new_user)
        /\ db' = log_action(InsertUser(db, new_user, new_pass), new_user,
                            "register_success")
        /\ pc' = Event("login_screen", "register", new_user, new_pass, TRUE, NoLogsShown)
        /\ UNCHANGED <<frames, rawRef, selfdf, calls, env, session>>

\* the part of main behind the login gate, without a click on Logout: the
\* filters and the opening of the Logs tab are logged, the Logs tab is shown
DashboardRun(kind) ==
    /\ session.logged_in
    /\ LogsRoom(2)
    /\ db' = log_action(log_action(db, session.username, "filters"),
                        session.username, "open_tab")
    /\ pc' = Event("dashboard", kind, pc.username, pc.password, pc.ok, logs_tab(db'))
    /\ UNCHANGED <<frames, rawRef, selfdf, calls, env, session>>

\* st.rerun() after a login: main runs again and passes the gate
AppRerunDashboard ==
    /\ pc.at = "rerun"
    /\ DashboardRun(pc.event)

\* st.rerun() after a logout: main runs again and stops at the login screen
AppRerunLoginScreen ==
    /\ pc.at = "rerun"
    /\ ~session.logged_in
    /\ pc' = [pc EXCEPT !.at = "login_screen"]
    /\ UNCHANGED <<frames, rawRef, selfdf, calls, env, db, session>>

\* a filter is changed on the dashboard
AppFilterChange ==
    /\ pc.at = "dashboard"
    /\ DashboardRun("filters")

\* the Logout button is clicked
AppLogout ==
    /\ pc.at = "dashboard"
    /\ session.logged_in
    /\ LogsRoom(1)
    /\ db' = log_action(db, session.username, "logout")
    /\ session' = [logged_in |-> FALSE, username |-> ""]
    /\ pc' = Event("rerun", "logout", "", "", FALSE, NoLogsShown)
    /\ UNCHANGED <<frames, rawRef, selfdf, calls, env>>

NextApp ==
    \/ AppLoginSucceeds
    \/ AppLoginFails
    \/ AppRegisterRejected
    \/ AppRegisterCreates
    \/ AppRerunDashboard
    \/ AppRerunLoginScreen
    \/ AppFilterChange
    \/ AppLogout

SpecApp == InitApp /\ [][NextApp]_vars


\* the dashboard part of main is reached only in a session that is logged in
GateHolds == pc.at = "dashboard" => session.logged_in

\* logged_in becomes true only in the run of a login whose username and
\* password are a stored account, and the session is then under that username
LoginOnlyByCredentials ==
    ~session.logged_in /\ session'.logged_in =>
        /\ pc'.event = "login"
        /\ pc'.ok
        /\ pc'.username \in DOMAIN users
        /\ users[pc'.username] = pc'.password
        /\ session'.username = pc'.username

\* a failed login and a registration leave the session logged out
FailureLeavesLoggedOut ==
    pc.at = "login_screen" /\ pc'.at = "login_screen" => ~session'.logged_in

\* Logout clears the session, and the run that follows shows the login screen
LogoutClearsSession ==
    /\ pc'.event = "logout" /\ pc'.at = "rerun" =>
          session' = [logged_in |-> FALSE, username |-> ""]
    /\ pc.event = "logout" /\ pc.at = "rerun" => pc'.at = "login_screen"

GateSteps == LoginOnlyByCredentials /\ FailureLeavesLoggedOut /\ LogoutClearsSession

\* C26: the dashboard is reached only with logged_in true; logged_in turns
\* true only right after check_login accepted the submitted username and
\* password, with that username in the session; a failed login and a
\* registration leave it false; Logout makes it false and the username empty,
\* and the next run shows the login screen.
C26_LoginGate == [](GateHolds) /\ [][GateSteps]_vars

\* ann has logged in and the rerun has reached the dashboard
C26_Witness ==
    /\ pc.at = "dashboard"
    /\ pc.event = "login"
    /\ session = [logged_in |-> TRUE, username |-> "ann"]

\* the row log_action appended last
LastLogged == db[DB_PATH].logs[Len(db[DB_PATH].logs)]

\* C27: when the Logs tab has been displayed, what it shows is read without an
\* error and the row log_action appended last is among the rows shown.
C27_LogsTabShowsLastLogged ==
    pc.at = "dashboard" =>
        /\ ~pc.shown.error
        /\ \E i \in 1..Len(pc.shown.rows) : pc.shown.rows[i] = LastLogged

====
